---------------------------- MODULE Spec2Model ----------------------------
(***************************************************************************)
(* Inference of implicit outlives predicates                               *)
(* (compiler/rustc_hir_analysis/src/outlives/implicit_infer.rs).           *)
(*                                                                         *)
(* The state is the state of infer_predicates: the crate being analysed    *)
(* (tcx), the global map of inferred predicates, the memo of explicit      *)
(* predicates, the round counter, the progress flag and the position of    *)
(* the loop over the items.  One action visits one item (the whole body    *)
(* of the `for id in tcx.hir().items()` loop), two actions end a round.    *)
(***************************************************************************)
EXTENDS Naturals, Sequences, FiniteSets, TLC

VARIABLES tcx, global_inferred_outlives, explicit_map, round,
          predicates_added, idx, pc

vars == <<tcx, global_inferred_outlives, explicit_map, round,
          predicates_added, idx, pc>>

\* Cap on the round counter: the model stops (without finishing) when a
\* run is about to start round MaxRound + 1.
MaxRound == 8

\* How many fields a definition of the generated family has at most.
MaxFields == 2

(***************************************************************************)
(* The typed IR: generic arguments (types and regions) as records of one   *)
(* shape.  k is the kind, did the definition (Adt, Dynamic, Projection),   *)
(* idx and name identify a parameter (or the associated item of a          *)
(* projection), substs are the nested generic arguments.                   *)
(***************************************************************************)
MkArg(k, did, i, name, substs) ==
    [k |-> k, did |-> did, idx |-> i, name |-> name, substs |-> substs]

Param(i, name)        == MkArg("Param", "", i, name, <<>>)
ReEarlyBound(i, name) == MkArg("ReEarlyBound", "", i, name, <<>>)
Ref(region, ty)       == MkArg("Ref", "", 0, "", <<region, ty>>)
Adt(did, substs)      == MkArg("Adt", did, 0, "", substs)
\* dyn Trait<substs>: did = "" when the object has no principal trait.
Dynamic(did, substs)  == MkArg("Dynamic", did, 0, "", substs)
\* <substs[1] as did<substs[2..]>>::name
Projection(did, name, substs) == MkArg("Projection", did, 0, name, substs)
FnPtr(substs)         == MkArg("FnPtr", "", 0, "", substs)
Usize                 == MkArg("Uint", "", 0, "usize", <<>>)
\* tcx.types.self_param: parameter 0 named Self.
SelfParam             == Param(0, "Self")

\* [ty; len]
Array(ty, len)        == MkArg("Array", "", 0, "", <<ty, len>>)
\* A constant generic argument.
Const(name)           == MkArg("Const", "", 0, name, <<>>)

IsRegion(arg) == arg.k \in {"ReEarlyBound"}
IsConst(arg)  == arg.k \in {"Const"}
IsType(arg)   == ~IsRegion(arg) /\ ~IsConst(arg)

RECURSIVE Walk(_), WalkAll(_)
\* Ty::walk: the type and every generic argument nested in it, depth first.
Walk(arg) == <<arg>> \o WalkAll(arg.substs)
WalkAll(args) ==
    IF args = <<>> THEN <<>> ELSE Walk(Head(args)) \o WalkAll(Tail(args))

RECURSIVE Subst(_, _)
\* EarlyBinder::subst: every parameter replaced by the argument at its index.
Subst(arg, substs) ==
    IF arg.k \in {"Param", "ReEarlyBound"}
    THEN substs[arg.idx + 1]
    ELSE [arg EXCEPT !.substs = [i \in DOMAIN arg.substs |->
                                    Subst(arg.substs[i], substs)]]

Range(s) == {s[i] : i \in DOMAIN s}


\* Sequencing of a loop body: v is computed before e, which uses it.
Then(v, e) == IF v = v THEN e ELSE e

None    == <<>>
Some(x) == <<x>>

(***************************************************************************)
(* RequiredPredicates: a sequence of entries [pred, stack], at most one    *)
(* entry per predicate.  A predicate is [ty, region] (ty: 'region); a      *)
(* stack is a sequence of [did, span].                                     *)
(***************************************************************************)
OutlivesPredicate(kind, region) == [ty |-> kind, region |-> region]
FieldSpan(did, i) == <<did, "field", i>>
BoundSpan(did, i) == <<did, "bound", i>>

Preds(required_predicates) ==
    {required_predicates[i].pred : i \in DOMAIN required_predicates}

\* utils::insert_outlives_predicate: no-op when the predicate is present,
\* else appended with the stack it was derived through plus (self_did, span).
insert_outlives_predicate(kind, outlived_region, self_did, span, required_predicates, stack) ==
    LET pred == OutlivesPredicate(kind, outlived_region)
        base == IF stack = None THEN <<>> ELSE stack[1]
    IN  IF pred \in Preds(required_predicates)
        THEN required_predicates
        ELSE Append(required_predicates,
                    [pred  |-> pred,
                     stack |-> Append(base, [did |-> self_did, span |-> span])])

\* The outlives bounds written on a definition (none for a definition the
\* crate does not define).
ExplicitBounds(def_id) ==
    IF def_id \in DOMAIN tcx.defs THEN tcx.defs[def_id].explicit ELSE <<>>

RECURSIVE ExplicitSet(_, _, _)
ExplicitSet(def_id, i, acc) ==
    LET bounds == ExplicitBounds(def_id) IN
    IF i > Len(bounds) THEN acc
    ELSE ExplicitSet(def_id, i + 1,
            insert_outlives_predicate(bounds[i].ty, bounds[i].region, def_id,
                                      BoundSpan(def_id, i), acc, None))

\* ExplicitPredicatesMap::explicit_predicates_of: computed on the first
\* request for def_id, kept afterwards.
explicit_predicates_of(map, def_id) ==
    IF def_id \in DOMAIN map THEN map
    ELSE (def_id :> ExplicitSet(def_id, 1, <<>>)) @@ map

\* Mutant of SkipsSelf: every bound is skipped when a Self type is given.
SkipsSelfAll(outlives_predicate, ignored_self_ty) ==
    ignored_self_ty # None

\* The test that skips a bound mentioning Self (made before substitution).
SkipsSelf(outlives_predicate, ignored_self_ty) ==
    /\ ignored_self_ty # None
    /\ IsType(outlives_predicate.ty)
    /\ ignored_self_ty[1] \in Range(Walk(outlives_predicate.ty))

RECURSIVE ExplicitLoopTestsAfterSubst(_, _, _, _, _, _)
\* Mutant of ExplicitLoop: the test for Self is made on the substituted
\* predicate.
ExplicitLoopTestsAfterSubst(explicit_predicates, i, self_did, substs, required_predicates, ignored_self_ty) ==
    IF i > Len(explicit_predicates) THEN required_predicates
    ELSE
      LET outlives_predicate == explicit_predicates[i].pred
          stack == explicit_predicates[i].stack
          span  == stack[Len(stack)].span
          predicate ==
            OutlivesPredicate(Subst(outlives_predicate.ty, substs),
                              Subst(outlives_predicate.region, substs))
          next  ==
            IF SkipsSelf(predicate, ignored_self_ty)
            THEN required_predicates
            ELSE insert_outlives_predicate(predicate.ty, predicate.region,
                    self_did, span, required_predicates, None)
      IN  Then(next, ExplicitLoopTestsAfterSubst(explicit_predicates, i + 1,
                        self_did, substs, next, ignored_self_ty))

RECURSIVE ExplicitLoopNoSubst(_, _, _, _, _, _)
\* Mutant of ExplicitLoop: the bound is inserted as written on def_id, its
\* parameters not replaced by the arguments.
ExplicitLoopNoSubst(explicit_predicates, i, self_did, substs, required_predicates, ignored_self_ty) ==
    IF i > Len(explicit_predicates) THEN required_predicates
    ELSE
      LET outlives_predicate == explicit_predicates[i].pred
          stack == explicit_predicates[i].stack
          span  == stack[Len(stack)].span
          next  ==
            IF SkipsSelf(outlives_predicate, ignored_self_ty)
            THEN required_predicates
            ELSE insert_outlives_predicate(
                    outlives_predicate.ty, outlives_predicate.region,
                    self_did, span, required_predicates, None)
      IN  Then(next, ExplicitLoopNoSubst(explicit_predicates, i + 1,
                        self_did, substs, next, ignored_self_ty))

RECURSIVE ExplicitLoopKeepsStack(_, _, _, _, _, _)
\* Mutant of ExplicitLoop: the stack of the explicit predicate, which
\* names def_id, is passed on to the insertion.
ExplicitLoopKeepsStack(explicit_predicates, i, self_did, substs, required_predicates, ignored_self_ty) ==
    IF i > Len(explicit_predicates) THEN required_predicates
    ELSE
      LET outlives_predicate == explicit_predicates[i].pred
          stack == explicit_predicates[i].stack
          span  == stack[Len(stack)].span
          next  ==
            IF SkipsSelf(outlives_predicate, ignored_self_ty)
            THEN required_predicates
            ELSE insert_outlives_predicate(
                    Subst(outlives_predicate.ty, substs),
                    Subst(outlives_predicate.region, substs),
                    self_did, span, required_predicates, Some(stack))
      IN  Then(next, ExplicitLoopKeepsStack(explicit_predicates, i + 1,
                        self_did, substs, next, ignored_self_ty))

RECURSIVE ExplicitLoop(_, _, _, _, _, _)
\* The loop of check_explicit_predicates over the explicit predicates.
ExplicitLoop(explicit_predicates, i, self_did, substs, required_predicates, ignored_self_ty) ==
    IF i > Len(explicit_predicates) THEN required_predicates
    ELSE
      LET outlives_predicate == explicit_predicates[i].pred
          stack == explicit_predicates[i].stack
          span  == stack[Len(stack)].span
          next  ==
            IF SkipsSelf(outlives_predicate, ignored_self_ty)
            THEN required_predicates
            ELSE insert_outlives_predicate(
                    Subst(outlives_predicate.ty, substs),
                    Subst(outlives_predicate.region, substs),
                    self_did, span, required_predicates, None)
      IN  Then(next, ExplicitLoop(explicit_predicates, i + 1, self_did,
                                  substs, next, ignored_self_ty))

\* st = [rp |-> required_predicates, em |-> explicit_map]
check_explicit_predicates(self_did, def_id, substs, st, ignored_self_ty) ==
    LET map == explicit_predicates_of(st.em, def_id)
    IN  [rp |-> ExplicitLoop(map[def_id], 1, self_did, substs, st.rp,
                             ignored_self_ty),
         em |-> map]

\* Mutant of InStack: only the definition the predicate originated in is
\* compared.
InStackOrigin(stack, self_did) ==
    stack # <<>> /\ stack[1].did = self_did

\* Mutant of InStack: only the definition the predicate was last taken
\* from is compared.
InStackLast(stack, self_did) ==
    stack # <<>> /\ stack[Len(stack)].did = self_did

\* Mutant of InStack: no cycle is ever detected.
InStackNever(stack, self_did) == FALSE

\* The cycle test: self_did is already in the stack of the predicate.
InStack(stack, self_did) ==
    \E i \in DOMAIN stack : stack[i].did = self_did

RECURSIVE InferredLoopNoSubst(_, _, _, _, _, _)
\* Mutant of InferredLoop: the predicate is inserted as stored for the
\* field's Adt, its parameters not replaced by the field's arguments.
InferredLoopNoSubst(unsubstituted_predicates, i, self_did, substs, field_span, required_predicates) ==
    IF i > Len(unsubstituted_predicates) THEN required_predicates
    ELSE
      LET unsubstituted_predicate == unsubstituted_predicates[i].pred
          stack == unsubstituted_predicates[i].stack
          next ==
            IF InStack(stack, self_did)
            THEN required_predicates
            ELSE insert_outlives_predicate(
                    unsubstituted_predicate.ty,
                    unsubstituted_predicate.region,
                    self_did, field_span, required_predicates, Some(stack))
      IN  Then(next, InferredLoopNoSubst(unsubstituted_predicates, i + 1,
                        self_did, substs, field_span, next))

RECURSIVE InferredLoopNoStack(_, _, _, _, _, _)
\* Mutant of InferredLoop: the predicate is inserted without the stack it
\* has in the entry of the field's Adt.
InferredLoopNoStack(unsubstituted_predicates, i, self_did, substs, field_span, required_predicates) ==
    IF i > Len(unsubstituted_predicates) THEN required_predicates
    ELSE
      LET unsubstituted_predicate == unsubstituted_predicates[i].pred
          stack == unsubstituted_predicates[i].stack
          next ==
            IF InStack(stack, self_did)
            THEN required_predicates
            ELSE insert_outlives_predicate(
                    Subst(unsubstituted_predicate.ty, substs),
                    Subst(unsubstituted_predicate.region, substs),
                    self_did, field_span, required_predicates, None)
      IN  Then(next, InferredLoopNoStack(unsubstituted_predicates, i + 1,
                        self_did, substs, field_span, next))

RECURSIVE InferredLoopFieldType(_, _, _, _, _, _)
\* Mutant of InferredLoop: the definition of the field's type, not the
\* definition being walked, is pushed on the stack.
InferredLoopFieldType(unsubstituted_predicates, i, self_did, substs, field_span, required_predicates) ==
    IF i > Len(unsubstituted_predicates) THEN required_predicates
    ELSE
      LET unsubstituted_predicate == unsubstituted_predicates[i].pred
          stack == unsubstituted_predicates[i].stack
          next ==
            IF InStack(stack, self_did)
            THEN required_predicates
            ELSE insert_outlives_predicate(
                    Subst(unsubstituted_predicate.ty, substs),
                    Subst(unsubstituted_predicate.region, substs),
                    stack[Len(stack)].did, field_span, required_predicates,
                    Some(stack))
      IN  Then(next, InferredLoopFieldType(unsubstituted_predicates, i + 1,
                                           self_did, substs, field_span, next))

RECURSIVE InferredLoop(_, _, _, _, _, _)
\* The loop over the predicates inferred so far for the Adt of a field.
InferredLoop(unsubstituted_predicates, i, self_did, substs, field_span, required_predicates) ==
    IF i > Len(unsubstituted_predicates) THEN required_predicates
    ELSE
      LET unsubstituted_predicate == unsubstituted_predicates[i].pred
          stack == unsubstituted_predicates[i].stack
          next ==
            IF InStack(stack, self_did)
            THEN required_predicates
            ELSE insert_outlives_predicate(
                    Subst(unsubstituted_predicate.ty, substs),
                    Subst(unsubstituted_predicate.region, substs),
                    self_did, field_span, required_predicates, Some(stack))
      IN  Then(next, InferredLoop(unsubstituted_predicates, i + 1, self_did,
                                  substs, field_span, next))

\* Mutant of RefArm: the reference itself, not the type behind it, is
\* required to outlive the region.
RefArmWholeType(self_did, arg, field_span, st) ==
    [st EXCEPT !.rp = insert_outlives_predicate(
        arg, arg.substs[1], self_did, field_span, st.rp, None)]

\* ty::Ref(region, rty, _): the requirement rty: region.
RefArm(self_did, arg, field_span, st) ==
    [st EXCEPT !.rp = insert_outlives_predicate(
        arg.substs[2], arg.substs[1], self_did, field_span, st.rp, None)]

\* Mutant of AdtArm: the predicates inferred for the Adt are not read.
AdtArmExplicitOnly(self_did, arg, field_span, global, st) ==
    check_explicit_predicates(self_did, arg.did, arg.substs, st, None)

\* Mutant of AdtArm: the explicit predicates are not looked up when the
\* field names the definition being walked.
AdtArmSkipsOwn(self_did, arg, field_span, global, st) ==
    LET inferred == [st EXCEPT !.rp =
            IF arg.did \in DOMAIN global
            THEN InferredLoop(global[arg.did], 1, self_did, arg.substs,
                              field_span, st.rp)
            ELSE st.rp]
    IN  IF arg.did = self_did THEN inferred
        ELSE check_explicit_predicates(self_did, arg.did, arg.substs,
                                       inferred, None)

\* ty::Adt(adt, substs): the predicates inferred so far for adt, then its
\* explicit ones.
AdtArm(self_did, arg, field_span, global, st) ==
    check_explicit_predicates(self_did, arg.did, arg.substs,
        [st EXCEPT !.rp =
            IF arg.did \in DOMAIN global
            THEN InferredLoop(global[arg.did], 1, self_did, arg.substs,
                              field_span, st.rp)
            ELSE st.rp],
        None)

\* ty::Dynamic(obj, ..): the explicit predicates of the principal trait,
\* with usize for Self and the bounds on Self ignored.
DynamicArm(self_did, arg, st) ==
    IF arg.did # ""
    THEN check_explicit_predicates(self_did, arg.did,
            <<Usize>> \o arg.substs, st, Some(SelfParam))
    ELSE st

\* Mutant of ProjectionArm: the bounds on Self are ignored, as for a trait
\* object.
ProjectionArmIgnoresSelf(self_did, arg, st) ==
    check_explicit_predicates(self_did, arg.did, arg.substs, st,
                              Some(SelfParam))

\* ty::Projection(obj): the explicit predicates of the trait of the item.
ProjectionArm(self_did, arg, st) ==
    check_explicit_predicates(self_did, arg.did, arg.substs, st, None)

\* One iteration of `for arg in field_ty.walk()`.
WalkStep(self_did, arg, field_span, global, st) ==
    IF ~IsType(arg) THEN st
    ELSE CASE arg.k = "Ref"        -> RefArm(self_did, arg, field_span, st)
           [] arg.k = "Adt"        -> AdtArm(self_did, arg, field_span,
                                             global, st)
           [] arg.k = "Dynamic"    -> DynamicArm(self_did, arg, st)
           [] arg.k = "Projection" -> ProjectionArm(self_did, arg, st)
           [] OTHER                -> st

RECURSIVE WalkLoop(_, _, _, _, _, _)
WalkLoop(self_did, args, i, field_span, global, st) ==
    IF i > Len(args) THEN st
    ELSE LET next == WalkStep(self_did, args[i], field_span, global, st)
         IN  Then(next, WalkLoop(self_did, args, i + 1, field_span, global,
                                 next))

\* Mutant of insert_required_predicates_to_be_wf: only the type of the
\* field is matched, not the types nested in it.
insert_required_predicates_top_only(self_did, field_ty, field_span, global, st) ==
    WalkLoop(self_did, <<field_ty>>, 1, field_span, global, st)

insert_required_predicates_to_be_wf(self_did, field_ty, field_span, global, st) ==
    WalkLoop(self_did, Walk(field_ty), 1, field_span, global, st)

RECURSIVE FieldLoopFreshSet(_, _, _, _)
\* Mutant of FieldLoop: every field is walked into a set of its own and
\* the sets are put one after the other.
FieldLoopFreshSet(item_did, i, global, st) ==
    LET fields == tcx.defs[item_did].fields IN
    IF i > Len(fields) THEN st
    ELSE LET one  == insert_required_predicates_to_be_wf(
                        item_did, fields[i], FieldSpan(item_did, i), global,
                        [rp |-> <<>>, em |-> st.em])
             next == [rp |-> st.rp \o one.rp, em |-> one.em]
         IN  Then(next, FieldLoopFreshSet(item_did, i + 1, global, next))

RECURSIVE FieldLoop(_, _, _, _)
\* `for field_def in adt_def.all_fields()`
FieldLoop(item_did, i, global, st) ==
    LET fields == tcx.defs[item_did].fields IN
    IF i > Len(fields) THEN st
    ELSE LET next == insert_required_predicates_to_be_wf(
                        item_did, fields[i], FieldSpan(item_did, i), global,
                        st)
         IN  Then(next, FieldLoop(item_did, i + 1, global, next))

\* The predicates computed for one item, with the explicit map after it.
ItemWalk(item_did, global, map) ==
    IF tcx.defs[item_did].kind \in {"Union", "Enum", "Struct"}
    THEN FieldLoop(item_did, 1, global, [rp |-> <<>>, em |-> map])
    ELSE [rp |-> <<>>, em |-> map]

ItemPredicatesLen(global, item_did) ==
    IF item_did \in DOMAIN global THEN Len(global[item_did]) ELSE 0

\* Mutant of Grew: any change of size counts.
GrewOrShrank(global, item_did, item_required_predicates) ==
    Len(item_required_predicates) # ItemPredicatesLen(global, item_did)

\* Mutant of Grew: a set of the same size counts as grown.
GrewOrEqual(global, item_did, item_required_predicates) ==
    Len(item_required_predicates) >= ItemPredicatesLen(global, item_did)

\* `item_required_predicates.len() > item_predicates_len`
Grew(global, item_did, item_required_predicates) ==
    Len(item_required_predicates) > ItemPredicatesLen(global, item_did)

\* Mutant of StoreAfter: the entry is replaced by every visit.
StoreAfterAlways(global, item_did, item_required_predicates) ==
    (item_did :> item_required_predicates) @@ global

\* The map after one item: replaced when the item's set got larger.
StoreAfter(global, item_did, item_required_predicates) ==
    IF Grew(global, item_did, item_required_predicates)
    THEN (item_did :> item_required_predicates) @@ global
    ELSE global

(***************************************************************************)
(* The crates the analysis is run on.  A definition is [kind, fields,      *)
(* explicit]: fields are the types of all its fields, explicit its         *)
(* written outlives bounds.                                                *)
(***************************************************************************)
Def(kind, fields, explicit) ==
    [kind |-> kind, fields |-> fields, explicit |-> explicit]
NotAdt(kind) == Def(kind, <<>>, <<>>)

\* <ty as trait<'region>>::name
Assoc(ty, trait, region, name) == Projection(trait, name, <<ty, region>>)

\* Example 1 of insert_required_predicates_to_be_wf:
\*   struct Foo<'a, T> { field1: Bar<'a, T> }
\*   struct Bar<'b, U> { field2: &'b U }
FooBar ==
    [items |-> <<"Foo", "Bar">>,
     defs  |-> [d \in {"Foo", "Bar"} |->
        IF d = "Foo"
        THEN Def("Struct",
                 <<Adt("Bar", <<ReEarlyBound(0, "'a"), Param(1, "T")>>)>>,
                 <<>>)
        ELSE Def("Struct",
                 <<Ref(ReEarlyBound(0, "'b"), Param(1, "U"))>>, <<>>)]]

\* src/test/ui/typeck/issue-102966-flywheel.rs
Flywheel ==
    LET node == ReEarlyBound(0, "'node")
        kind == ReEarlyBound(0, "'kind")
        var  == ReEarlyBound(0, "'var")
        map  == ReEarlyBound(0, "'map")
        T    == Param(1, "T")
        R    == Param(1, "R")
    IN
    [items |-> <<"Trait", "Node", "Kind", "RGen", "impl", "Var", "Map",
                 "main">>,
     defs  |-> [d \in {"Trait", "Node", "Kind", "RGen", "impl", "Var", "Map",
                       "main"} |->
        CASE d = "Trait" -> NotAdt("Trait")
          [] d = "Node"  -> Def("Struct",
                <<Adt("Kind", <<node, T>>),
                  Adt("Option", <<Assoc(T, "Trait", node, "Assoc")>>)>>,
                <<>>)
          [] d = "Kind"  -> Def("Enum",
                <<Adt("Map", <<kind, Assoc(T, "Trait", kind, "Input"),
                               Assoc(T, "Trait", kind, "Assoc")>>),
                  Adt("Var", <<kind, Assoc(T, "Trait", kind, "Assoc")>>)>>,
                <<>>)
          [] d = "RGen"  -> Def("Struct",
                <<Adt("PhantomData", <<Param(0, "R")>>)>>, <<>>)
          [] d = "impl"  -> NotAdt("Impl")
          [] d = "Var"   -> Def("Struct",
                <<Adt("Box", <<Adt("Node", <<var, Adt("RGen", <<R>>)>>)>>)>>,
                <<OutlivesPredicate(R, var)>>)
          [] d = "Map"   -> Def("Struct",
                <<Ref(map, Param(1, "I")),
                  FnPtr(<<Param(1, "I"), Param(2, "R")>>)>>,
                <<>>)
          [] d = "main"  -> NotAdt("Fn")]]

\* The trait object example of check_explicit_predicates, with any of
\* the bounds on the trait and the object held in a Box or by reference:
\*   trait Trait<'a, T> where Self: 'a, T: 'a, <Self as Trait<'a, T>>::Foo: 'a
\*   struct MyStruct<'x, X> { field: Box<dyn Trait<'x, X>> }
TraitBounds ==
    LET a == ReEarlyBound(1, "'a")
        T == Param(2, "T")
    IN  <<OutlivesPredicate(SelfParam, a),
          OutlivesPredicate(T, a),
          OutlivesPredicate(Projection("Trait", "Foo", <<SelfParam, a, T>>),
                            a)>>

DynObject == Dynamic("Trait", <<ReEarlyBound(0, "'x"), Param(1, "X")>>)

DynFields ==
    {<<Adt("Box", <<DynObject>>)>>,
     <<Adt("Box", <<Dynamic("", <<>>)>>)>>,
     <<Ref(ReEarlyBound(0, "'x"), DynObject)>>,
     <<Adt("Box", <<Dynamic("", <<>>)>>), Adt("Box", <<DynObject>>)>>}

\* The sequence s without the elements at the positions in drop.
RECURSIVE Without(_, _, _)
Without(s, drop, i) ==
    IF i > Len(s) THEN <<>>
    ELSE (IF i \in drop THEN <<>> ELSE <<s[i]>>) \o Without(s, drop, i + 1)

\* <Y as Trait<'x, X>>::Foo, for a third parameter Y of MyStruct.
ProjObject ==
    Projection("Trait", "Foo",
               <<Param(2, "Y"), ReEarlyBound(0, "'x"), Param(1, "X")>>)

\* Fields of MyStruct<'x, X, Y> that hold the projection.
ProjFields ==
    {<<ProjObject>>,
     <<Adt("Box", <<ProjObject>>)>>,
     <<Ref(ReEarlyBound(0, "'x"), ProjObject)>>,
     <<Adt("Box", <<DynObject>>), ProjObject>>}

DynCrate(bounds, fields) ==
    [items |-> <<"Trait", "MyStruct">>,
     defs  |-> [d \in {"Trait", "MyStruct"} |->
        IF d = "Trait" THEN Def("Trait", <<>>, bounds)
        ELSE Def("Struct", fields, <<>>)]]

DynTrait == DynCrate(TraitBounds, <<Adt("Box", <<DynObject>>)>>)

DynCrates ==
    {DynCrate(Without(TraitBounds, drop, 1), fields) :
        drop \in SUBSET DOMAIN TraitBounds,
        fields \in DynFields \cup ProjFields}

\* The example of the cycle test:
\*   trait Trait<'a> { type Assoc: 'a; }
\*   struct Node<'node, T: Trait<'node>>(Var<'node, T::Assoc>, Option<T::Assoc>);
\*   struct RGen<R>(std::marker::PhantomData<R>);
\*   impl<'a, R: 'a> Trait<'a> for RGen<R> { type Assoc = R; }
\*   struct Var<'var, R: 'var>(Box<Node<'var, RGen<R>>>);
Issue102966 ==
    LET node == ReEarlyBound(0, "'node")
        var  == ReEarlyBound(0, "'var")
        T    == Param(1, "T")
        R    == Param(1, "R")
    IN
    [items |-> <<"Trait", "Node", "RGen", "impl", "Var">>,
     defs  |-> [d \in {"Trait", "Node", "RGen", "impl", "Var"} |->
        CASE d = "Trait" -> NotAdt("Trait")
          [] d = "Node"  -> Def("Struct",
                <<Adt("Var", <<node, Assoc(T, "Trait", node, "Assoc")>>),
                  Adt("Option", <<Assoc(T, "Trait", node, "Assoc")>>)>>,
                <<>>)
          [] d = "RGen"  -> Def("Struct",
                <<Adt("PhantomData", <<Param(0, "R")>>)>>, <<>>)
          [] d = "impl"  -> NotAdt("Impl")
          [] d = "Var"   -> Def("Struct",
                <<Adt("Box", <<Adt("Node", <<var, Adt("RGen", <<R>>)>>)>>)>>,
                <<OutlivesPredicate(R, var)>>)]]

\* References, one nested in another:
\*   struct Refs<'a, 'b, T> { x: &'a T, y: &'b &'a T }
Refs ==
    LET a == ReEarlyBound(0, "'a")
        b == ReEarlyBound(1, "'b")
        T == Param(2, "T")
    IN
    [items |-> <<"Refs">>,
     defs  |-> [d \in {"Refs"} |->
                  Def("Struct", <<Ref(a, T), Ref(b, Ref(a, T))>>, <<>>)]]

\* References inside other shapes:
\*   struct Nested<'a, 'b, T, U> { f: fn(&'a T) -> usize,
\*                                 g: [&'b &'a U; N] }
Nested ==
    LET a == ReEarlyBound(0, "'a")
        b == ReEarlyBound(1, "'b")
        T == Param(2, "T")
        U == Param(3, "U")
    IN
    [items |-> <<"Nested">>,
     defs  |-> [d \in {"Nested"} |->
                  Def("Struct",
                      <<FnPtr(<<Ref(a, T), Usize>>),
                        Array(Ref(b, Ref(a, U)), Const("N"))>>,
                      <<>>)]]

\* A program without items.
Empty == [items |-> <<>>, defs |-> <<>>]

\* A definition used with one type for two of its parameters:
\*   struct Pair<'p, A, B> { x: &'p A, y: &'p B }
\*   struct Twice<'q, C> { p: Pair<'q, C, C> }
Twice ==
    LET p == ReEarlyBound(0, "'p")
        q == ReEarlyBound(0, "'q")
        C == Param(1, "C")
    IN
    [items |-> <<"Pair", "Twice">>,
     defs  |-> [d \in {"Pair", "Twice"} |->
        IF d = "Pair"
        THEN Def("Struct", <<Ref(p, Param(1, "A")), Ref(p, Param(2, "B"))>>,
                 <<>>)
        ELSE Def("Struct", <<Adt("Pair", <<q, C, C>>)>>, <<>>)]]

\* A family of crates: structs S<'a, T> whose fields are references &'a T,
\* boxed structs of the family, Box<S<'a, T>>, or those with T re-wrapped
\* in a projection, Box<S<'a, <T as Tr>::A>> (Tr a trait of another crate).
FamilyIds == {"S1", "S2"}
Boxed(ty) == Adt("Box", <<ty>>)
FamilyTys ==
    LET a == ReEarlyBound(0, "'a")
        T == Param(1, "T")
    IN  {Ref(a, T)}
        \cup {Boxed(Adt(d, <<a, T>>)) : d \in FamilyIds}
        \cup {Boxed(Adt(d, <<a, Projection("Tr", "A", <<T>>)>>)) :
                d \in FamilyIds}
FieldLists ==
    UNION {[1..n -> FamilyTys] : n \in 0..MaxFields}
FamilyCrate(f) ==
    [items |-> <<"S1", "S2">>,
     defs  |-> [d \in FamilyIds |-> Def("Struct", f[d], <<>>)]]

\* The crates of the family with written bounds: S<'a, T> or S<'a, T: 'a>,
\* with no field, one field of the family, or &'a T and one field of the
\* family.
BoundedFieldLists ==
    {<<>>} \cup {<<ty>> : ty \in FamilyTys}
           \cup {<<Ref(ReEarlyBound(0, "'a"), Param(1, "T")), ty>> :
                    ty \in FamilyTys}
BoundLists ==
    {<<>>, <<OutlivesPredicate(Param(1, "T"), ReEarlyBound(0, "'a"))>>}
BoundedCrate(f, x) ==
    [items |-> <<"S1", "S2">>,
     defs  |-> [d \in FamilyIds |-> Def("Struct", f[d], x[d])]]
BoundedCrates ==
    {BoundedCrate(f, x) : f \in [FamilyIds -> BoundedFieldLists],
                          x \in [FamilyIds -> BoundLists]}

\* struct S1<'a, T> { f1: Box<S2<'a, T>>, f2: &'a T,
\*                     f3: Box<S2<'a, <T as Tr>::A>> }
\* struct S2<'a, T> { g1: &'a T, g2: Box<S1<'a, <T as Tr>::A>> }
Rewrap ==
    LET a == ReEarlyBound(0, "'a")
        T == Param(1, "T")
        A == Projection("Tr", "A", <<T>>)
    IN  FamilyCrate([d \in FamilyIds |->
            IF d = "S1"
            THEN <<Boxed(Adt("S2", <<a, T>>)), Ref(a, T),
                   Boxed(Adt("S2", <<a, A>>))>>
            ELSE <<Ref(a, T), Boxed(Adt("S1", <<a, A>>))>>])

\* struct S1<'a, T> { f1: &'a T }
\* struct S2<'a, T> { g1: Box<S3<'a, <T as Tr>::A>>,
\*                     g2: Box<S1<'a, <T as Tr>::A>> }
\* struct S3<'a, T> { h1: &'a T, h2: Box<S2<'a, <T as Tr>::A>> }
Relay ==
    LET a == ReEarlyBound(0, "'a")
        T == Param(1, "T")
        A == Projection("Tr", "A", <<T>>)
    IN
    [items |-> <<"S1", "S2", "S3">>,
     defs  |-> [d \in {"S1", "S2", "S3"} |->
        CASE d = "S1" -> Def("Struct", <<Ref(a, T)>>, <<>>)
          [] d = "S2" -> Def("Struct",
                <<Boxed(Adt("S3", <<a, A>>)), Boxed(Adt("S1", <<a, A>>))>>,
                <<>>)
          [] d = "S3" -> Def("Struct",
                <<Ref(a, T), Boxed(Adt("S2", <<a, A>>))>>, <<>>)]]

Catalogue ==
    {Empty, FooBar, Flywheel, Issue102966, Refs, Nested, Twice, Rewrap,
     Relay}
        \cup DynCrates \cup BoundedCrates

IsAdt(crate, d) == crate.defs[d].kind \in {"Union", "Enum", "Struct"}

\* The items of a crate in every order of its struct/enum/union items
\* (the other items stay where they are).
Orders(crate) ==
    LET n    == Len(crate.items)
        adts == {i \in 1..n : IsAdt(crate, crate.items[i])}
    IN  {[i \in 1..n |-> IF i \in adts THEN crate.items[p[i]]
                                       ELSE crate.items[i]] :
            p \in {q \in [adts -> adts] :
                    \A i, j \in adts : i # j => q[i] # q[j]}}

\* The crate is one of the catalogue or one of the family, its items in
\* one of their orders.
IsCrate(c) ==
    \/ \E crate \in Catalogue : \E o \in Orders(crate) :
            c = [crate EXCEPT !.items = o]
    \/ \E f \in [FamilyIds -> FieldLists] :
            \E o \in Orders(FamilyCrate(f)) :
                c = [FamilyCrate(f) EXCEPT !.items = o]

(***************************************************************************)
(* infer_predicates                                                        *)
(***************************************************************************)
Init ==
    /\ IsCrate(tcx)
    /\ global_inferred_outlives = <<>>
    /\ explicit_map = <<>>
    /\ round = 1
    /\ predicates_added = FALSE
    /\ idx = 1
    /\ pc = "items"

\* Mutant of VisitItem: the flag is assigned by every item, not only set.
VisitItemAssignsFlag ==
    /\ pc = "items"
    /\ idx <= Len(tcx.items)
    /\ LET item_did == tcx.items[idx]
           st == ItemWalk(item_did, global_inferred_outlives, explicit_map)
           item_required_predicates == st.rp
       IN  /\ explicit_map' = st.em
           /\ global_inferred_outlives' =
                StoreAfter(global_inferred_outlives, item_did,
                           item_required_predicates)
           /\ predicates_added' =
                Grew(global_inferred_outlives, item_did,
                     item_required_predicates)
    /\ idx' = idx + 1
    /\ UNCHANGED <<tcx, round, pc>>

\* One iteration of `for id in tcx.hir().items()`.
VisitItem ==
    /\ pc = "items"
    /\ idx <= Len(tcx.items)
    /\ LET item_did == tcx.items[idx]
           st == ItemWalk(item_did, global_inferred_outlives, explicit_map)
           item_required_predicates == st.rp
       IN  /\ explicit_map' = st.em
           /\ global_inferred_outlives' =
                StoreAfter(global_inferred_outlives, item_did,
                           item_required_predicates)
           /\ predicates_added' =
                (\/ predicates_added
                 \/ Grew(global_inferred_outlives, item_did,
                         item_required_predicates))
    /\ idx' = idx + 1
    /\ UNCHANGED <<tcx, round, pc>>

\* `if !predicates_added { break 'outer; }`
Break ==
    /\ pc = "items"
    /\ idx > Len(tcx.items)
    /\ ~predicates_added
    /\ pc' = "done"
    /\ UNCHANGED <<tcx, global_inferred_outlives, explicit_map, round,
                   predicates_added, idx>>

\* Mutant of NextRound: every round starts with a new map of explicit
\* predicates.
NextRoundNewMap ==
    /\ pc = "items"
    /\ idx > Len(tcx.items)
    /\ predicates_added
    /\ round < MaxRound
    /\ round' = round + 1
    /\ predicates_added' = FALSE
    /\ idx' = 1
    /\ explicit_map' = <<>>
    /\ UNCHANGED <<tcx, global_inferred_outlives, pc>>

\* Mutant of NextRound: the flag is not reset for the new round.
NextRoundKeepsFlag ==
    /\ pc = "items"
    /\ idx > Len(tcx.items)
    /\ predicates_added
    /\ round < MaxRound
    /\ round' = round + 1
    /\ idx' = 1
    /\ UNCHANGED <<tcx, global_inferred_outlives, explicit_map, pc,
                   predicates_added>>

\* `round += 1;` and the start of the next round.
NextRound ==
    /\ pc = "items"
    /\ idx > Len(tcx.items)
    /\ predicates_added
    /\ round < MaxRound
    /\ round' = round + 1
    /\ predicates_added' = FALSE
    /\ idx' = 1
    /\ UNCHANGED <<tcx, global_inferred_outlives, explicit_map, pc>>

Next == VisitItem \/ Break \/ NextRound

Spec == Init /\ [][Next]_vars

\* Where the loop is.
pos == <<idx, round, pc>>

\* The loop has a step to take (Next is enabled).
Running ==
    /\ pc = "items"
    /\ \/ idx <= Len(tcx.items)
       \/ ~predicates_added
       \/ round < MaxRound

\* The loop moves on: under Spec, exactly the steps of Next.
Step ==
    /\ Running
    /\ idx' \in 1..(Len(tcx.items) + 1)
    /\ round' \in 1..MaxRound
    /\ pc' \in {"items", "done"}
    /\ pos' # pos

\* The scheduling of a sequential loop: a step that can be taken is taken.
LiveSpec == Spec /\ WF_pos(Step)

TypeOK ==
    /\ pc \in {"items", "done"}
    /\ round \in 1..MaxRound
    /\ idx \in 1..(Len(tcx.items) + 1)
    /\ DOMAIN global_inferred_outlives \subseteq Range(tcx.items)

(***************************************************************************)
(* Derived views of the state                                              *)
(***************************************************************************)
\* The (subject, region) predicates stored for a definition.
StoredPreds(global, d) ==
    IF d \in DOMAIN global THEN Preds(global[d]) ELSE {}

\* The set a further visit of item d would compute against the current map.
Recomputed(d) ==
    ItemWalk(d, global_inferred_outlives, explicit_map).rp

RECURSIVE RoundFrom(_, _, _, _)
\* The map after the items from position i on are visited in one round.
RoundFrom(items, i, global, map) ==
    IF i > Len(items) THEN global
    ELSE LET st   == ItemWalk(items[i], global, map)
             next == StoreAfter(global, items[i], st.rp)
         IN  Then(next, RoundFrom(items, i + 1, next, st.em))

Adts == {d \in Range(tcx.items) : IsAdt(tcx, d)}

IsFlywheel == DOMAIN tcx.defs = DOMAIN Flywheel.defs
IsFooBar   == DOMAIN tcx.defs = DOMAIN FooBar.defs
IsDynTrait == DOMAIN tcx.defs = DOMAIN DynTrait.defs
IsIssue102966 == DOMAIN tcx.defs = DOMAIN Issue102966.defs
IsRefs     == DOMAIN tcx.defs = DOMAIN Refs.defs
IsRewrap   == tcx = Rewrap
IsTwice    == DOMAIN tcx.defs = DOMAIN Twice.defs
IsRelay    == DOMAIN tcx.defs = DOMAIN Relay.defs
IsNested   == DOMAIN tcx.defs = DOMAIN Nested.defs

(***************************************************************************)
(* C1: when infer_predicates has stopped, one more round over all items    *)
(* against the returned map replaces no entry, and the set of predicates   *)
(* recomputed for each item equals the stored set.                         *)
(***************************************************************************)
FixedPoint ==
    pc = "done" =>
        /\ RoundFrom(tcx.items, 1, global_inferred_outlives, explicit_map)
             = global_inferred_outlives
        /\ \A d \in Range(tcx.items) :
             Preds(Recomputed(d)) = StoredPreds(global_inferred_outlives, d)

\* The part of C1 the size test gives: the extra round replaces no entry.
NoFurtherGrowth ==
    pc = "done" =>
        RoundFrom(tcx.items, 1, global_inferred_outlives, explicit_map)
          = global_inferred_outlives

(***************************************************************************)
(* C2: for every crate, recursive definitions included, the round loop     *)
(* reaches a round in which no set grew and infer_predicates returns; it   *)
(* does not go on to the cap on the rounds.                                *)
(***************************************************************************)
Terminates == <>(pc = "done")

\* A crate with a cycle of definitions has returned after several rounds.
TerminatesWitness ==
    /\ pc = "done"
    /\ IsFlywheel
    /\ round >= 4

(***************************************************************************)
(* C3: on the flywheel crate the driver stops after at most as many        *)
(* rounds as the crate has struct/enum/union definitions, and one more     *)
(* round changes no predicate set.                                         *)
(***************************************************************************)
FlywheelConverges ==
    (IsFlywheel /\ pc = "done") =>
        /\ round <= Cardinality(Adts)
        /\ RoundFrom(tcx.items, 1, global_inferred_outlives, explicit_map)
             = global_inferred_outlives
        /\ \A d \in Adts :
             Preds(Recomputed(d)) = StoredPreds(global_inferred_outlives, d)

\* The flywheel crate, visited in source order, has returned with entries
\* for Node, Kind, Var and Map.
FlywheelConvergesWitness ==
    /\ pc = "done"
    /\ tcx = Flywheel
    /\ DOMAIN global_inferred_outlives = {"Node", "Kind", "Var", "Map"}

(***************************************************************************)
(* Helpers of the claims about single predicates                           *)
(***************************************************************************)
Fields(d) == tcx.defs[d].fields

\* The requirement of a reference type &'region ty.
RefPred(ref) == OutlivesPredicate(ref.substs[2], ref.substs[1])

\* The map holds for d the predicate with exactly this stack.
HasEntry(d, pred, stack) ==
    /\ d \in DOMAIN global_inferred_outlives
    /\ \E i \in DOMAIN global_inferred_outlives[d] :
          global_inferred_outlives[d][i] = [pred |-> pred, stack |-> stack]

FieldStack(d, i) == <<[did |-> d, span |-> FieldSpan(d, i)]>>

\* No field of d before field i mentions a definition, a trait object or a
\* projection, or holds a reference with the requirement of field i.
NothingEarlier(d, i) ==
    \A j \in 1..(i - 1) : \A node \in Range(Walk(Fields(d)[j])) :
        /\ node.k \notin {"Adt", "Dynamic", "Projection"}
        /\ node.k = "Ref" => RefPred(node) # RefPred(Fields(d)[i])

(***************************************************************************)
(* C4 as claimed: for every definition D with a field of type &'a T the    *)
(* final entry of D holds T: 'a with the one-element stack (D, that        *)
(* field).  It fails when an earlier field already gave the predicate.     *)
(***************************************************************************)
DirectReferenceAnyField ==
    pc = "done" =>
        \A d \in Adts : \A i \in DOMAIN Fields(d) :
            Fields(d)[i].k = "Ref" =>
                HasEntry(d, RefPred(Fields(d)[i]), FieldStack(d, i))

(***************************************************************************)
(* C4 as amended: the final entry of D holds T: 'a for every field of      *)
(* type &'a T, and the stack is the one element (D, that field) when no    *)
(* earlier field of D mentions a definition, trait object or projection    *)
(* or holds a reference with the same requirement.                         *)
(***************************************************************************)
DirectReference ==
    pc = "done" =>
        \A d \in Adts : \A i \in DOMAIN Fields(d) :
            Fields(d)[i].k = "Ref" =>
                /\ RefPred(Fields(d)[i])
                     \in StoredPreds(global_inferred_outlives, d)
                /\ NothingEarlier(d, i) =>
                     HasEntry(d, RefPred(Fields(d)[i]), FieldStack(d, i))

\* Refs has returned: its second field, a reference after a reference
\* with another requirement, is stored with its own location.
DirectReferenceWitness ==
    /\ pc = "done"
    /\ IsRefs
    /\ NothingEarlier("Refs", 2)
    /\ HasEntry("Refs", RefPred(Fields("Refs")[2]), FieldStack("Refs", 2))

(***************************************************************************)
(* C5: for Foo<'a,T>{ field1: Bar<'a,T> } and Bar<'b,U>{ field2: &'b U },  *)
(* in either order of the items, the final map holds for Foo exactly       *)
(* T: 'a and for Bar exactly U: 'b.                                        *)
(***************************************************************************)
TransitiveSubstitution ==
    (IsFooBar /\ pc = "done") =>
        /\ DOMAIN global_inferred_outlives = {"Foo", "Bar"}
        /\ Preds(global_inferred_outlives["Foo"]) =
             {OutlivesPredicate(Param(1, "T"), ReEarlyBound(0, "'a"))}
        /\ Preds(global_inferred_outlives["Bar"]) =
             {OutlivesPredicate(Param(1, "U"), ReEarlyBound(0, "'b"))}

\* Foo visited before Bar: Foo's predicate arrives in round 2, through
\* Bar's entry, and the driver returns in round 3.
TransitiveSubstitutionWitness ==
    /\ pc = "done"
    /\ IsFooBar
    /\ tcx.items = <<"Foo", "Bar">>
    /\ round = 3
    /\ HasEntry("Foo", OutlivesPredicate(Param(1, "T"), ReEarlyBound(0, "'a")),
                <<[did |-> "Bar", span |-> FieldSpan("Bar", 1)],
                  [did |-> "Foo", span |-> FieldSpan("Foo", 1)]>>)

(***************************************************************************)
(* C6: for a field of D containing dyn Trait<args>, a bound of Trait whose *)
(* subject mentions Self is never among the predicates computed or stored  *)
(* for D, in any round (the test is made before args are substituted, in   *)
(* which Self is usize).                                                   *)
(***************************************************************************)
SelfBoundsOf(trait) ==
    {b \in Range(ExplicitBounds(trait)) : SelfParam \in Range(Walk(b.ty))}

SelfFiltered ==
    \A d \in Adts : \A i \in DOMAIN Fields(d) :
        \A node \in Range(Walk(Fields(d)[i])) :
            (node.k = "Dynamic" /\ node.did # "") =>
                \A b \in SelfBoundsOf(node.did) :
                    OutlivesPredicate(
                        Subst(b.ty, <<Usize>> \o node.substs),
                        Subst(b.region, <<Usize>> \o node.substs))
                    \notin (Preds(Recomputed(d))
                            \cup StoredPreds(global_inferred_outlives, d))

\* MyStruct has been visited: of the three bounds of Trait only T: 'a,
\* which does not mention Self, gave a predicate (X: 'x).
SelfFilteredWitness ==
    /\ tcx = DynTrait
    /\ Cardinality(SelfBoundsOf("Trait")) = Len(ExplicitBounds("Trait")) - 1
    /\ "MyStruct" \in DOMAIN global_inferred_outlives
    /\ Preds(global_inferred_outlives["MyStruct"]) =
         {OutlivesPredicate(Param(1, "X"), ReEarlyBound(0, "'x"))}

(***************************************************************************)
(* C7: a Predicate Set holds a predicate once: inserting a predicate that  *)
(* is present, with whatever stack, leaves the set and the stack first     *)
(* recorded unchanged, so a predicate reached through two field paths is   *)
(* stored once, with the provenance first seen.                            *)
(***************************************************************************)
Stacks ==
    UNION {{global_inferred_outlives[d][i].stack :
                i \in DOMAIN global_inferred_outlives[d]} :
            d \in DOMAIN global_inferred_outlives}

Deduplicated ==
    \A d \in DOMAIN global_inferred_outlives :
        LET set == global_inferred_outlives[d] IN
        /\ \A i, j \in DOMAIN set : set[i].pred = set[j].pred => i = j
        /\ \A i \in DOMAIN set : \A stack \in Stacks :
              insert_outlives_predicate(set[i].pred.ty, set[i].pred.region,
                  d, FieldSpan(d, 1), set, Some(stack)) = set
        /\ (Fields(d) # <<>> /\ Fields(d)[1].k = "Ref") =>
              set[1] = [pred  |-> RefPred(Fields(d)[1]),
                        stack |-> FieldStack(d, 1)]

\* S1 { &'a T, Box<S2<'a, T>> } and S2 { &'a T }: T: 'a reaches S1 through both
\* fields once S2 has an entry; S1 holds it once, from its first field.
DeduplicatedWitness ==
    /\ pc = "done"
    /\ DOMAIN tcx.defs = FamilyIds
    /\ Fields("S1") =
         <<Ref(ReEarlyBound(0, "'a"), Param(1, "T")),
           Boxed(Adt("S2", <<ReEarlyBound(0, "'a"), Param(1, "T")>>))>>
    /\ Fields("S2") = <<Ref(ReEarlyBound(0, "'a"), Param(1, "T"))>>
    /\ "S2" \in DOMAIN global_inferred_outlives
    /\ global_inferred_outlives["S1"] =
         <<[pred  |-> OutlivesPredicate(Param(1, "T"), ReEarlyBound(0, "'a")),
            stack |-> FieldStack("S1", 1)]>>

(***************************************************************************)
(* C8: in every step of the driver no entry of the map is removed and no   *)
(* entry gets fewer predicates.                                            *)
(***************************************************************************)
NeverShrinks ==
    \A d \in DOMAIN global_inferred_outlives :
        /\ d \in DOMAIN global_inferred_outlives'
        /\ Len(global_inferred_outlives'[d])
             >= Len(global_inferred_outlives[d])

MonotonicGrowth == [][NeverShrinks]_vars

\* The flywheel in source order in round 2: Kind's entry, one predicate
\* after round 1, has been replaced by one of two.
MonotonicGrowthWitness ==
    /\ tcx = Flywheel
    /\ round = 2
    /\ "Kind" \in DOMAIN global_inferred_outlives
    /\ Len(global_inferred_outlives["Kind"]) = 2

(***************************************************************************)
(* C9: the predicates of the final map, provenance ignored, are the same   *)
(* for every order in which the items are visited.                         *)
(***************************************************************************)
PredSets(global) == [d \in DOMAIN global |-> Preds(global[d])]

RECURSIVE RunRounds(_, _, _)
\* The map infer_predicates returns for the items in the given order:
\* rounds until one replaces nothing.
RunRounds(items, global, n) ==
    LET next == RoundFrom(items, 1, global, <<>>)
    IN  IF next = global \/ n >= MaxRound THEN next
        ELSE RunRounds(items, next, n + 1)

OrderIrrelevant ==
    pc = "done" =>
        \A o \in Orders(tcx) :
            PredSets(RunRounds(o, <<>>, 1))
              = PredSets(global_inferred_outlives)

(***************************************************************************)
(* C10: every stack stored in the map names a definition at most once, so  *)
(* it is no longer than the number of definitions.                         *)
(***************************************************************************)
StackNamesOnce ==
    \A stack \in Stacks :
        /\ \A i, j \in DOMAIN stack : stack[i].did = stack[j].did => i = j
        /\ Len(stack) <= Cardinality(Adts)

\* The flywheel: Var holds the predicate that went Map, Kind, Node, Var.
StackNamesOnceWitness ==
    /\ IsFlywheel
    /\ \E stack \in Stacks :
          [i \in DOMAIN stack |-> stack[i].did]
            = <<"Map", "Kind", "Node", "Var">>

(***************************************************************************)
(* Helpers of the claims about nested definitions                          *)
(***************************************************************************)
\* The nodes of kind k in the types of the fields of d.
Nodes(d, k) ==
    {node \in UNION {Range(Walk(Fields(d)[i])) : i \in DOMAIN Fields(d)} :
        node.k = k}

\* The definitions a provenance stack names.
StackDids(stack) == {stack[m].did : m \in DOMAIN stack}

\* The predicate with the parameters replaced by the arguments.
SubstPred(pred, substs) ==
    OutlivesPredicate(Subst(pred.ty, substs), Subst(pred.region, substs))

\* The map at the end of the round after the one the items from position
\* i on are still to be visited in.
AfterNextRound(items, i, global) ==
    RoundFrom(items, 1, RoundFrom(items, i, global, <<>>), <<>>)

(***************************************************************************)
(* C11: a field of D that mentions a definition without an entry in the    *)
(* map adds nothing but the explicit predicates of that definition; and    *)
(* when a step gives a definition D' a predicate whose stack does not      *)
(* contain D, the entry of every D with a field mentioning D'<args> holds  *)
(* the substituted predicate at the end of the next full round.            *)
(***************************************************************************)
MissingEntryStep ==
    /\ \A d \in Adts : \A node \in Nodes(d, "Adt") :
          node.did \notin DOMAIN global_inferred_outlives =>
            LET st == [rp |-> <<>>, em |-> explicit_map]
            IN  AdtArm(d, node, FieldSpan(d, 1),
                       global_inferred_outlives, st)
                  = check_explicit_predicates(d, node.did, node.substs, st,
                                              None)
    /\ \A dp \in DOMAIN global_inferred_outlives' :
          \A i \in DOMAIN global_inferred_outlives'[dp] :
            LET e == global_inferred_outlives'[dp][i] IN
            e.pred \notin StoredPreds(global_inferred_outlives, dp) =>
              \A d \in Adts : \A node \in Nodes(d, "Adt") :
                (node.did = dp /\ d \notin StackDids(e.stack)) =>
                    SubstPred(e.pred, node.substs) \in
                      StoredPreds(AfterNextRound(tcx.items, idx',
                                    global_inferred_outlives'), d)

Generics(d) ==
    CASE d = "Foo"  -> {ReEarlyBound(0, "'a"), Param(1, "T")}
      [] d = "Bar"  -> {ReEarlyBound(0, "'b"), Param(1, "U")}
      [] d = "Node" -> {ReEarlyBound(0, "'node"), Param(1, "T")}
      [] d = "Kind" -> {ReEarlyBound(0, "'kind"), Param(1, "T")}
      [] d = "RGen" -> {Param(0, "R")}
      [] d = "Var"  -> {ReEarlyBound(0, "'var"), Param(1, "R")}
      [] d = "Map"  -> {ReEarlyBound(0, "'map"), Param(1, "I"),
                        Param(2, "R")}
      [] d = "MyStruct" -> {ReEarlyBound(0, "'x"), Param(1, "X"),
                            Param(2, "Y")}
      [] d = "Refs" -> {ReEarlyBound(0, "'a"), ReEarlyBound(1, "'b"),
                        Param(2, "T")}
      [] d = "Nested" -> {ReEarlyBound(0, "'a"), ReEarlyBound(1, "'b"),
                          Param(2, "T"), Param(3, "U")}
      [] d = "Pair" -> {ReEarlyBound(0, "'p"), Param(1, "A"),
                        Param(2, "B")}
      [] d = "Twice" -> {ReEarlyBound(0, "'q"), Param(1, "C")}
      [] d \in {"S1", "S2", "S3"} ->
                       {ReEarlyBound(0, "'a"), Param(1, "T")}
      [] OTHER -> {}

\* The parameters a type or region mentions.
ParamsOf(arg) ==
    {a \in Range(Walk(arg)) : a.k \in {"Param", "ReEarlyBound"}}

OwnParametersOnly ==
    \A d \in DOMAIN global_inferred_outlives :
        \A i \in DOMAIN global_inferred_outlives[d] :
            LET pred == global_inferred_outlives[d][i].pred
            IN  ParamsOf(pred.ty) \cup ParamsOf(pred.region)
                    \subseteq Generics(d)

\* The flywheel: Kind holds the bound R: 'var of Var in its own terms,
\* <T as Trait<'kind>>::Assoc: 'kind.
OwnParametersOnlyWitness ==
    /\ IsFlywheel
    /\ OutlivesPredicate(Assoc(Param(1, "T"), "Trait",
                               ReEarlyBound(0, "'kind"), "Assoc"),
                         ReEarlyBound(0, "'kind"))
         \in StoredPreds(global_inferred_outlives, "Kind")
    /\ Generics("Var") \cap Generics("Kind") = {}

(***************************************************************************)
(* C13: whenever the driver visits a definition D, the set it recomputes   *)
(* for D contains every predicate stored for D; so a recomputed set of     *)
(* the size of the stored one has the same members.                        *)
(***************************************************************************)
\* The item the driver visits next, if any.
Visiting(d) ==
    /\ pc = "items"
    /\ idx <= Len(tcx.items)
    /\ d = tcx.items[idx]

RecomputedContainsStored ==
    \A d \in Range(tcx.items) :
        Visiting(d) =>
            /\ StoredPreds(global_inferred_outlives, d)
                 \subseteq Preds(Recomputed(d))
            /\ Len(Recomputed(d))
                 = ItemPredicatesLen(global_inferred_outlives, d)
               => Preds(Recomputed(d))
                    = StoredPreds(global_inferred_outlives, d)

(***************************************************************************)
(* C14: a step of the driver that replaces an entry keeps every predicate  *)
(* of the old entry, so a predicate once stored for a definition stays in  *)
(* its entry in every later state.                                         *)
(***************************************************************************)
KeepsPredicates ==
    \A d \in DOMAIN global_inferred_outlives :
        StoredPreds(global_inferred_outlives, d)
            \subseteq StoredPreds(global_inferred_outlives', d)

ThroughNode(d, i, node) ==
    InferredLoop(global_inferred_outlives[node.did], 1, d, node.substs,
                 FieldSpan(d, i), <<>>)

\* The positions of the entry of the node's definition whose stack does
\* not contain d.
Kept(d, node) ==
    {k \in DOMAIN global_inferred_outlives[node.did] :
        d \notin StackDids(global_inferred_outlives[node.did][k].stack)}

\* What position k of the entry of the node's definition is inserted as.
Derived(d, i, node, k) ==
    LET e == global_inferred_outlives[node.did][k]
    IN  [pred  |-> SubstPred(e.pred, node.substs),
         stack |-> Append(e.stack, [did |-> d, span |-> FieldSpan(d, i)])]

\* The nodes of field i of d that name a definition with an entry.
AdtNodes(d, i) ==
    {node \in Range(Walk(Fields(d)[i])) :
        node.k = "Adt" /\ node.did \in DOMAIN global_inferred_outlives}

(***************************************************************************)
(* C15 as claimed: a predicate of D' whose stack contains D adds nothing   *)
(* through the node, and every predicate of D' whose stack does not        *)
(* contain D is in the set computed for D with args substituted and with   *)
(* that stack followed by (D, field i).  It fails when the set already     *)
(* holds the substituted predicate.                                        *)
(***************************************************************************)
CycleCutAnyPredicate ==
    \A d \in Adts : \A i \in DOMAIN Fields(d) : \A node \in AdtNodes(d, i) :
        /\ Preds(ThroughNode(d, i, node)) =
             {Derived(d, i, node, k).pred : k \in Kept(d, node)}
        /\ \A k \in Kept(d, node) :
             Derived(d, i, node, k) \in Range(Recomputed(d))

(***************************************************************************)
(* C15 as amended: a predicate of D' whose stack contains D adds nothing   *)
(* through the node; a predicate of D' whose stack does not contain D is   *)
(* in the set computed for D with args substituted; the node alone gives   *)
(* it that stack followed by (D, field i) unless an earlier predicate of   *)
(* D' gives the same predicate, and every stack of two or more elements    *)
(* in the set computed for D is such a stack.                              *)
(***************************************************************************)
CycleCut ==
    \A d \in Adts :
        LET recomputed == Recomputed(d) IN
        /\ \A i \in DOMAIN Fields(d) : \A node \in AdtNodes(d, i) :
            LET out == ThroughNode(d, i, node) IN
            /\ Preds(out) =
                 {Derived(d, i, node, k).pred : k \in Kept(d, node)}
            /\ \A k \in Kept(d, node) :
                 \/ Derived(d, i, node, k) \in Range(out)
                 \/ \E m \in Kept(d, node) :
                       /\ m < k
                       /\ Derived(d, i, node, m).pred
                            = Derived(d, i, node, k).pred
            /\ Range(out) \subseteq
                 {Derived(d, i, node, k) : k \in Kept(d, node)}
            /\ Preds(out) \subseteq Preds(recomputed)
        /\ \A e \in Range(recomputed) :
             Len(e.stack) >= 2 =>
                \E i \in DOMAIN Fields(d) : \E node \in AdtNodes(d, i) :
                    \E k \in Kept(d, node) : e = Derived(d, i, node, k)

\* The flywheel: every predicate of Var came through Kind, so Kind takes
\* none of them from its field Var<..>, while Node has taken from Kind the
\* predicate that came from Map.
CycleCutWitness ==
    /\ IsFlywheel
    /\ "Var" \in DOMAIN global_inferred_outlives
    /\ \E k \in DOMAIN global_inferred_outlives["Var"] :
          "Kind" \in StackDids(global_inferred_outlives["Var"][k].stack)
    /\ \E stack \in Stacks :
          [i \in DOMAIN stack |-> stack[i].did] = <<"Map", "Kind", "Node">>
    /\ Kept("Kind", Adt("Var", <<>>)) = {}
    /\ Kept("Node", Adt("Kind", <<>>)) # {}

(***************************************************************************)
(* C16: in the flywheel crate, in every order of the items, Kind never     *)
(* holds <RGen<<T as Trait<'kind>>::Assoc> as Trait<'kind>>::Input: 'kind  *)
(* and Node never holds the same with 'node; the predicate I: 'map of Map  *)
(* ends in Var with the stack Map, Kind, Node, Var.                        *)
(***************************************************************************)
\* <RGen<<T as Trait<'r>>::Assoc> as Trait<'r>>::Input: 'r
Rewrapped(r) ==
    OutlivesPredicate(
        Assoc(Adt("RGen", <<Assoc(Param(1, "T"), "Trait", r, "Assoc")>>),
              "Trait", r, "Input"),
        r)

\* <RGen<R> as Trait<'var>>::Input: 'var
VarInput ==
    OutlivesPredicate(
        Assoc(Adt("RGen", <<Param(1, "R")>>), "Trait",
              ReEarlyBound(0, "'var"), "Input"),
        ReEarlyBound(0, "'var"))

FlywheelCut ==
    IsFlywheel =>
        /\ Rewrapped(ReEarlyBound(0, "'kind"))
             \notin StoredPreds(global_inferred_outlives, "Kind")
        /\ Rewrapped(ReEarlyBound(0, "'node"))
             \notin StoredPreds(global_inferred_outlives, "Node")
        /\ pc = "done" =>
             \E stack \in Stacks :
                /\ HasEntry("Var", VarInput, stack)
                /\ [i \in DOMAIN stack |-> stack[i].did]
                     = <<"Map", "Kind", "Node", "Var">>

\* The flywheel has returned: Var holds the predicate Kind would re-wrap,
\* and Kind holds two predicates, its own forms of I: 'map and R: 'var.
FlywheelCutWitness ==
    /\ IsFlywheel
    /\ pc = "done"
    /\ VarInput \in StoredPreds(global_inferred_outlives, "Var")
    /\ SubstPred(VarInput,
                 <<ReEarlyBound(0, "'kind"),
                   Assoc(Param(1, "T"), "Trait", ReEarlyBound(0, "'kind"),
                         "Assoc")>>)
         = Rewrapped(ReEarlyBound(0, "'kind"))
    /\ Cardinality(StoredPreds(global_inferred_outlives, "Kind")) = 2

(***************************************************************************)
(* C17: the driver of the code, in which an item reads the entries         *)
(* replaced earlier in the same round, and a driver in which every item    *)
(* of a round reads the map as it was when the round started, return the   *)
(* same predicates for every definition.                                   *)
(***************************************************************************)
RECURSIVE SnapshotRoundFrom(_, _, _, _)
\* One round of the snapshot driver: every item is computed against the
\* map of the round's start, the replacements are gathered in next.
SnapshotRoundFrom(items, i, start, next) ==
    IF i > Len(items) THEN next
    ELSE LET st    == ItemWalk(items[i], start, <<>>)
             after == IF Grew(start, items[i], st.rp)
                      THEN (items[i] :> st.rp) @@ next
                      ELSE next
         IN  Then(after, SnapshotRoundFrom(items, i + 1, start, after))

RECURSIVE RunSnapshot(_, _, _)
\* The map the snapshot driver returns: rounds until one replaces nothing.
RunSnapshot(items, global, n) ==
    LET next == SnapshotRoundFrom(items, 1, global, global)
    IN  IF next = global \/ n >= MaxRound THEN next
        ELSE RunSnapshot(items, next, n + 1)

SnapshotEquivalent ==
    pc = "done" =>
        PredSets(RunSnapshot(tcx.items, <<>>, 1))
          = PredSets(global_inferred_outlives)

(***************************************************************************)
(* C18: for every node D'<args> in a field of D, every outlives bound      *)
(* written on D', with args substituted, is in the set computed for D,     *)
(* against the current map and against the empty one, also when D' is D.   *)
(***************************************************************************)
ExplicitAlways ==
    \A d \in Adts : \A node \in Nodes(d, "Adt") :
        \A b \in Range(ExplicitBounds(node.did)) :
            /\ SubstPred(b, node.substs) \in Preds(Recomputed(d))
            /\ SubstPred(b, node.substs) \in Preds(ItemWalk(d, <<>>, <<>>).rp)

\* S1<'a, T: 'a> with a field Box<S1<'a, <T as Tr>::A>>: S1 holds its own
\* bound for <T as Tr>::A, and then reads its own entry.
ExplicitAlwaysWitness ==
    /\ DOMAIN tcx.defs = FamilyIds
    /\ round >= 2
    /\ ExplicitBounds("S1") # <<>>
    /\ \E node \in Nodes("S1", "Adt") :
          /\ node.did = "S1"
          /\ HasEntry("S1",
                SubstPred(ExplicitBounds("S1")[1], node.substs),
                <<[did |-> "S1", span |-> BoundSpan("S1", 1)]>>)

(***************************************************************************)
(* C19: a predicate D takes from a written bound of a definition D' named  *)
(* in its fields gets the stack of one element (D, location of the         *)
(* bound); in every stored stack a bound's location is at the first        *)
(* position only, with the definition that was walked and not the one the  *)
(* bound is written on.                                                    *)
(***************************************************************************)
\* The stack of a predicate d takes from bound i of dp.
BoundStack(d, dp, i) == <<[did |-> d, span |-> BoundSpan(dp, i)]>>

\* The definitions and traits named in the fields of d.
Named(d) ==
    {node.did : node \in Nodes(d, "Adt") \cup Nodes(d, "Dynamic")
                            \cup Nodes(d, "Projection")}

ExplicitProvenance ==
    /\ \A d \in Adts : \A node \in Nodes(d, "Adt") :
          LET bounds == ExplicitBounds(node.did)
              st     == [rp |-> <<>>, em |-> explicit_map]
          IN  check_explicit_predicates(d, node.did, node.substs, st,
                                        None).rp
                = [i \in DOMAIN bounds |->
                     [pred  |-> SubstPred(bounds[i], node.substs),
                      stack |-> BoundStack(d, node.did, i)]]
    /\ \A d \in DOMAIN global_inferred_outlives :
          \A e \in Range(global_inferred_outlives[d]) :
            \A m \in DOMAIN e.stack :
                e.stack[m].span[2] = "bound" =>
                    /\ m = 1
                    /\ e.stack[1].span[1] \in Named(e.stack[1].did)
                    /\ Len(e.stack) = 1 => e.stack[1].did = d
                    /\ e.stack[1].span[1] \notin Named(e.stack[1].span[1])
                         => e.stack[1].did # e.stack[1].span[1]

\* The example of the cycle test: Node holds the bound R: 'var of Var as
\* <T as Trait<'node>>::Assoc: 'node with the stack (Node, bound of Var),
\* and Var, not in that stack, has taken it from Node.
ExplicitProvenanceWitness ==
    /\ IsIssue102966
    /\ HasEntry("Node",
                OutlivesPredicate(
                    Assoc(Param(1, "T"), "Trait", ReEarlyBound(0, "'node"),
                          "Assoc"),
                    ReEarlyBound(0, "'node")),
                BoundStack("Node", "Var", 1))
    /\ \E stack \in Stacks :
          /\ [i \in DOMAIN stack |-> stack[i].did] = <<"Node", "Var">>
          /\ stack[1].span = BoundSpan("Var", 1)

(***************************************************************************)
(* C20: for a projection <X as Trait<args>>::Item in a field of D, every   *)
(* outlives bound written on Trait, those on Self included, is in the set  *)
(* computed for D with the arguments of the projection substituted (X for  *)
(* Self), and in the entry of D once D has been visited.                   *)
(***************************************************************************)
\* The definitions visited at least once.
Visited ==
    IF round > 1 \/ pc = "done" THEN Range(tcx.items)
    ELSE {tcx.items[i] : i \in 1..(idx - 1)}

ProjectionBounds ==
    \A d \in Adts : \A node \in Nodes(d, "Projection") :
        \A b \in Range(ExplicitBounds(node.did)) :
            /\ SubstPred(b, node.substs) \in Preds(Recomputed(d))
            /\ d \in Visited =>
                 SubstPred(b, node.substs)
                    \in StoredPreds(global_inferred_outlives, d)

\* MyStruct<'x, X, Y> { f: <Y as Trait<'x, X>>::Foo } with the three
\* bounds on Trait: the entry holds Y: 'x (from Self: 'a), X: 'x and
\* <Y as Trait<'x, X>>::Foo: 'x.
ProjectionBoundsWitness ==
    /\ IsDynTrait
    /\ Fields("MyStruct") = <<ProjObject>>
    /\ ExplicitBounds("Trait") = TraitBounds
    /\ StoredPreds(global_inferred_outlives, "MyStruct") =
         {OutlivesPredicate(Param(2, "Y"), ReEarlyBound(0, "'x")),
          OutlivesPredicate(Param(1, "X"), ReEarlyBound(0, "'x")),
          OutlivesPredicate(ProjObject, ReEarlyBound(0, "'x"))}

(***************************************************************************)
(* C21: for a trait object dyn Trait<args> in a field of D, every outlives *)
(* bound written on Trait whose subject does not mention Self is in the    *)
(* set computed for D with args substituted, and in the entry of D once D  *)
(* has been visited; a trait object without a principal trait gives        *)
(* nothing.                                                                *)
(***************************************************************************)
DynBounds ==
    \A d \in Adts : \A i \in DOMAIN Fields(d) :
        \A node \in Range(Walk(Fields(d)[i])) :
            node.k = "Dynamic" =>
                LET st == [rp |-> <<>>, em |-> explicit_map] IN
                IF node.did = ""
                THEN WalkStep(d, node, FieldSpan(d, i),
                              global_inferred_outlives, st) = st
                ELSE \A b \in Range(ExplicitBounds(node.did)) \
                                SelfBoundsOf(node.did) :
                        LET pred == SubstPred(b, <<Usize>> \o node.substs) IN
                        /\ pred \in Preds(WalkStep(d, node, FieldSpan(d, i),
                                     global_inferred_outlives, st).rp)
                        /\ pred \in Preds(Recomputed(d))
                        /\ d \in Visited =>
                             pred \in StoredPreds(global_inferred_outlives, d)

\* MyStruct<'x, X> { f: &'x dyn Trait<'x, X> } with the bound T: 'a on
\* Trait: the entry holds X: 'x, from the bound, next to the requirement
\* of the reference.
DynBoundsWitness ==
    /\ IsDynTrait
    /\ pc = "done"
    /\ Fields("MyStruct") = <<Ref(ReEarlyBound(0, "'x"), DynObject)>>
    /\ ExplicitBounds("Trait") = TraitBounds
    /\ StoredPreds(global_inferred_outlives, "MyStruct") =
         {OutlivesPredicate(DynObject, ReEarlyBound(0, "'x")),
          OutlivesPredicate(Param(1, "X"), ReEarlyBound(0, "'x"))}

\* MyStruct { f: Box<dyn ..> } with no principal trait has been visited
\* and has no entry.
NoPrincipalWitness ==
    /\ IsDynTrait
    /\ pc = "done"
    /\ Fields("MyStruct") = <<Adt("Box", <<Dynamic("", <<>>)>>)>>
    /\ global_inferred_outlives = <<>>

(***************************************************************************)
(* C22: the walk of a field gives the requirement of every reference at    *)
(* any depth of the field's type; regions, constants and the types that    *)
(* are no reference, definition, trait object or projection give nothing   *)
(* themselves, while the types nested in them are walked.                  *)
(***************************************************************************)
\* What field i of d alone gives against the current map.
FieldAlone(d, i) ==
    insert_required_predicates_to_be_wf(d, Fields(d)[i], FieldSpan(d, i),
        global_inferred_outlives, [rp |-> <<>>, em |-> explicit_map]).rp

\* The kinds of the arms of the walk.
ArmKinds == {"Ref", "Adt", "Dynamic", "Projection"}

EveryReference ==
    \A d \in Adts :
        LET recomputed == Preds(Recomputed(d))
            stored     == StoredPreds(global_inferred_outlives, d)
            empty      == [rp |-> <<>>, em |-> explicit_map]
        IN
        \A i \in DOMAIN Fields(d) :
            LET nodes == Range(Walk(Fields(d)[i]))
                refs  == {RefPred(node) : node \in {n \in nodes : n.k = "Ref"}}
            IN  /\ refs \subseteq recomputed
                /\ d \in Visited => refs \subseteq stored
                /\ \A node \in nodes :
                     node.k \notin ArmKinds =>
                        WalkStep(d, node, FieldSpan(d, i),
                                 global_inferred_outlives, empty) = empty
                /\ (\A node \in nodes : node.k \notin ArmKinds \ {"Ref"}) =>
                     LET out == FieldAlone(d, i) IN
                     /\ Preds(out) = refs
                     /\ \A e \in Range(out) : e.stack = FieldStack(d, i)

\* Nested has been visited: T: 'a from the reference in the fn pointer,
\* &'a U: 'b and U: 'a from the references in the array, nothing else.
EveryReferenceWitness ==
    /\ IsNested
    /\ pc = "done"
    /\ StoredPreds(global_inferred_outlives, "Nested") =
         {OutlivesPredicate(Param(2, "T"), ReEarlyBound(0, "'a")),
          OutlivesPredicate(Ref(ReEarlyBound(0, "'a"), Param(3, "U")),
                            ReEarlyBound(1, "'b")),
          OutlivesPredicate(Param(3, "U"), ReEarlyBound(0, "'a"))}

(***************************************************************************)
(* C23: the visit of an item D changes at most the entry of D: it is       *)
(* replaced by the recomputed set exactly when that has more predicates    *)
(* than the stored one (none stored counting as 0), otherwise the map is   *)
(* unchanged; no other step changes the map.                               *)
(***************************************************************************)
OnlyOwnEntryStep ==
    IF pc = "items" /\ idx <= Len(tcx.items)
    THEN LET d    == tcx.items[idx]
             rc   == Recomputed(d)
             size == IF d \in DOMAIN global_inferred_outlives
                     THEN Len(global_inferred_outlives[d]) ELSE 0
         IN  /\ \A o \in Range(tcx.items) \ {d} :
                  /\ o \in DOMAIN global_inferred_outlives'
                       <=> o \in DOMAIN global_inferred_outlives
                  /\ o \in DOMAIN global_inferred_outlives =>
                       global_inferred_outlives'[o]
                         = global_inferred_outlives[o]
             /\ IF Len(rc) > size
                THEN /\ d \in DOMAIN global_inferred_outlives'
                     /\ global_inferred_outlives'[d] = rc
                     /\ predicates_added'
                ELSE /\ global_inferred_outlives' = global_inferred_outlives
                     /\ predicates_added' = predicates_added
    ELSE global_inferred_outlives' = global_inferred_outlives

OnlyOwnEntry == [][OnlyOwnEntryStep]_vars

\* Bar { &'b U } and Foo { Bar<'a, T> } visited in this order: both
\* entries were stored in round 1, and round 2 has gone through both
\* items without a replacement.
OnlyOwnEntryWitness ==
    /\ IsFooBar
    /\ tcx.items = <<"Bar", "Foo">>
    /\ round = 2
    /\ idx = 3
    /\ pc = "items"
    /\ ~predicates_added
    /\ DOMAIN global_inferred_outlives = {"Foo", "Bar"}

(***************************************************************************)
(* C24: the driver returns at the end of the first round that replaced no  *)
(* entry and goes on to another round, with the flag reset, at the end of  *)
(* a round that replaced one; it returns only after a full round, so a     *)
(* program without items gives one round and an empty map.                 *)
(***************************************************************************)
RECURSIVE StartOfRound(_)
\* The map at the start of round r: r - 1 full rounds from the empty map.
StartOfRound(r) ==
    IF r = 1 THEN <<>>
    ELSE RoundFrom(tcx.items, 1, StartOfRound(r - 1), <<>>)

\* The loop over the items of the current round is through.
EndOfRound == pc = "items" /\ idx > Len(tcx.items)

StopsWhenQuietStep ==
    LET replaced == global_inferred_outlives # StartOfRound(round) IN
    /\ pc' = "done" /\ pc # "done" =>
          /\ EndOfRound
          /\ ~replaced
          /\ \A r \in 1..(round - 1) : StartOfRound(r + 1) # StartOfRound(r)
          /\ round' = round
          /\ global_inferred_outlives' = global_inferred_outlives
          /\ tcx.items = <<>> =>
                round' = 1 /\ global_inferred_outlives' = <<>>
    /\ round' # round =>
          /\ EndOfRound
          /\ replaced
          /\ round' = round + 1
          /\ idx' = 1
          /\ predicates_added' = FALSE
    /\ EndOfRound => IF replaced THEN round' = round + 1 ELSE pc' = "done"

StopsWhenQuiet == [][StopsWhenQuietStep]_vars

\* The program without items has returned: one round, an empty map.
StopsWhenQuietWitness ==
    /\ tcx = Empty
    /\ pc = "done"
    /\ round = 1
    /\ global_inferred_outlives = <<>>

(***************************************************************************)
(* C25: the explicit predicates of a definition or trait, once in the      *)
(* map, stay there unchanged through every item and round, and a lookup    *)
(* returns them without computing; they are the bounds written on the      *)
(* definition, each with a stack of at least one element.                  *)
(***************************************************************************)
ExplicitOnceStep ==
    /\ \A d \in DOMAIN explicit_map :
          /\ d \in DOMAIN explicit_map'
          /\ explicit_map'[d] = explicit_map[d]
          /\ explicit_predicates_of(explicit_map, d) = explicit_map
    /\ \A d \in DOMAIN explicit_map' :
          /\ Preds(explicit_map'[d]) = Range(ExplicitBounds(d))
          /\ \A e \in Range(explicit_map'[d]) :
                /\ e.stack # <<>>
                /\ e.stack[Len(e.stack)].span[2] = "bound"
    /\ \A d \in Adts : \A st \in {[rp |-> <<>>, em |-> explicit_map]} :
          \A k \in {"Adt", "Dynamic", "Projection"} :
            \A node \in {n \in Nodes(d, k) : n.did \in DOMAIN explicit_map} :
                WalkStep(d, node, FieldSpan(d, 1), global_inferred_outlives,
                         st).em = explicit_map

ExplicitOnce == [][ExplicitOnceStep]_vars

\* The flywheel in round 3: the bound R: 'var of Var, looked up by Kind
\* in every round, is in the map as computed in round 1.
ExplicitOnceWitness ==
    /\ IsFlywheel
    /\ round = 3
    /\ "Var" \in DOMAIN explicit_map
    /\ explicit_map["Var"] =
         <<[pred  |-> OutlivesPredicate(Param(1, "R"),
                                        ReEarlyBound(0, "'var")),
            stack |-> <<[did |-> "Var", span |-> BoundSpan("Var", 1)]>>]>>

(***************************************************************************)
(* C26: every stored stack of a definition D is non-empty and ends with D; *)
(* every element after the first names a definition of the program and a   *)
(* field of it whose type names the definition of the element before.      *)
(***************************************************************************)
\* Field i of definition d names definition dp.
Mentions(d, i, dp) ==
    \E node \in Range(Walk(Fields(d)[i])) : node.k = "Adt" /\ node.did = dp

StackChain ==
    \A d \in DOMAIN global_inferred_outlives :
      \A k \in DOMAIN global_inferred_outlives[d] :
        LET stack == global_inferred_outlives[d][k].stack IN
        /\ stack # <<>>
        /\ stack[Len(stack)].did = d
        /\ \A m \in 2..Len(stack) :
              /\ stack[m].did \in Adts
              /\ \E i \in DOMAIN Fields(stack[m].did) :
                    /\ Mentions(stack[m].did, i, stack[m - 1].did)
                    /\ stack[m].span = FieldSpan(stack[m].did, i)

\* The relay after its last round: a stored stack runs through three
\* definitions.
StackChainWitness ==
    /\ IsRelay
    /\ pc = "done"
    /\ \E d \in DOMAIN global_inferred_outlives :
         \E k \in DOMAIN global_inferred_outlives[d] :
            Len(global_inferred_outlives[d][k].stack) >= 3

=============================================================================
